---- MODULE Spec2Model ----
(***************************************************************************)
(* A model of jiant/proj/main/runner.py: TrainState, JiantRunner and       *)
(* L2TWWRunner (training step, training contexts) and the evaluation       *)
(* drivers run_val / run_test.                                             *)
(*                                                                         *)
(* The program is single threaded, so every public operation is one        *)
(* action.  An operation is computed by operators that thread a record w   *)
(* (the mutable state of the runner and of its collaborators) through the  *)
(* statements of the method, in source order.  w.events is the sequence of *)
(* collaborator invocations the operation made, and w.raised names the     *)
(* exception that ended it ("none" when it returned).                      *)
(***************************************************************************)
EXTENDS Integers, Sequences, FiniteSets, TLC

\* ------------------------------------------------------------------ bounds
\* Largest gradient_accumulation_steps a task is configured with.
MaxAccum == 2
\* Largest configured global_train_config.max_steps.
MaxSteps == 3
\* Number of run_train_step calls a behaviour may start.
MaxCalls == 2
\* Number of direct TrainState.step calls the caller may make.
MaxDirect == 1
\* Largest number of cached examples of a task, and largest eval_subset_num.
MaxExamples == 2

\* The container's task_run_config.train_task_list and a name outside it.
train_task_list == <<"taskA", "taskB">>
UnknownTask == "taskZ"
\* The scaled losses complex_backpropagate may return for the micro-batches of
\* one call: all alike, or alternating.
LossSeqs == {[k \in 1..MaxAccum |-> 1], [k \in 1..MaxAccum |-> 1 + (k % 2)]}
\* Where a micro-batch of the accumulation window may fail.
FailKinds == {"forward", "backward"}

Range(s) == {s[k] : k \in 1..Len(s)}
Tasks == Range(train_task_list)
Last(s) == s[Len(s)]
Count(s, e) == Cardinality({k \in 1..Len(s) : s[k] = e})
Max(a, b) == IF a >= b THEN a ELSE b
RECURSIVE SumSeq(_)
SumSeq(s) == IF s = <<>> THEN 0 ELSE Head(s) + SumSeq(Tail(s))
RECURSIVE SumOver(_, _)
SumOver(f, S) ==
  IF S = {} THEN 0
  ELSE LET x == CHOOSE y \in S : TRUE IN f[x] + SumOver(f, S \ {x})

VARIABLES
  runner_class,                 \* "JiantRunner" or "L2TWWRunner"
  gradient_accumulation_steps,  \* task_specific_configs[t].gradient_accumulation_steps
  max_steps,                    \* global_train_config.max_steps
  train_state,                  \* the TrainState object in use
  task_sampler,                 \* number of task_sampler.pop() calls so far
  train_dataloader_dict,        \* per task: batches popped from its InfiniteYield
  grad,                         \* call ids of the backward passes held in .grad
  optimizer_steps,              \* number of optimizer_scheduler.step() calls so far
  applied,                      \* the gradient the last optimizer_scheduler.step() used
  log,                          \* entries written by log_writer.write_entry
  model_mode,                   \* jiant_model's mode: "train" or "eval"
  gen,                          \* the training-context generator the caller holds
  ncalls,                       \* run_train_step calls started so far
  ndirect,                      \* direct TrainState.step calls made so far
  last,                         \* the last operation: its inputs, entry state, trace
  local_rank,                   \* rparams.local_rank
  test_task_list,               \* task_run_config.test_task_list
  cache_len,                    \* per task: examples in its val / test cache
  eval_subset_num,              \* task_specific_configs[t].eval_subset_num
  eval_batch_size,              \* task_specific_configs[t].eval_batch_size
  last_eval,                    \* the last run_val / run_test call and its trace
  teacher,                      \* teacher_jiant_model: its parameters and mode
  matching                      \* a MetaWhatAndWhere.forward call: inputs, outcome

vars == <<runner_class, gradient_accumulation_steps, max_steps, train_state,
          task_sampler, train_dataloader_dict, grad, optimizer_steps, applied,
          log, model_mode, gen, ncalls, ndirect, last, local_rank,
          test_task_list, cache_len, eval_subset_num, eval_batch_size,
          last_eval, teacher, matching>>
cfgVars == <<runner_class, gradient_accumulation_steps, max_steps, local_rank,
             test_task_list, cache_len, eval_subset_num, eval_batch_size>>

\* ------------------------------------------------------------- TrainState
from_task_name_list(task_name_list) ==
  [global_steps |-> 0, task_steps |-> [t \in Range(task_name_list) |-> 0]]

\* A step that bumps the global counter before the dictionary lookup.
step_global_first(self, task_name) ==
  IF task_name \notin DOMAIN self.task_steps
  THEN [raised |-> "KeyError",
        self |-> [self EXCEPT !.global_steps = @ + 1]]
  ELSE [raised |-> "none",
        self |-> [global_steps |-> self.global_steps + 1,
                  task_steps |-> [self.task_steps EXCEPT ![task_name] = @ + 1]]]

\* A step that forgets the global counter.
step_task_only(self, task_name) ==
  IF task_name \notin DOMAIN self.task_steps
  THEN [raised |-> "KeyError", self |-> self]
  ELSE [raised |-> "none",
        self |-> [self EXCEPT !.task_steps[task_name] = @ + 1]]

\* TrainState.step: task_steps[task_name] += 1 reads the key first, so an
\* unknown name raises KeyError before anything is written.
step(self, task_name) ==
  IF task_name \notin DOMAIN self.task_steps
  THEN [raised |-> "KeyError", self |-> self]
  ELSE [raised |-> "none",
        self |-> [global_steps |-> self.global_steps + 1,
                  task_steps |-> [self.task_steps EXCEPT ![task_name] = @ + 1]]]

\* ------------------------------------------------- collaborators (opaque)
\* The record threaded through one operation.
World ==
  [train_state |-> train_state, task_sampler |-> task_sampler,
   cursors |-> train_dataloader_dict, grad |-> grad,
   optimizer_steps |-> optimizer_steps, applied |-> applied, log |-> log,
   mode |-> model_mode, events |-> <<>>, raised |-> "none", loss_val |-> 0,
   meta_batches |-> <<>>, teacher |-> teacher]

\* What an operation started in w leaves for the next one (its trace and its
\* locals die with the call).
Entry(w) == [w EXCEPT !.events = <<>>, !.raised = "none", !.loss_val = 0,
                      !.meta_batches = <<>>]

emit(w, e) == [w EXCEPT !.events = Append(@, e)]
raise(w, exc) == [w EXCEPT !.raised = exc]

\* The inputs of one run_train_step call: the task the sampler returns, the
\* scaled loss of each micro-batch, and where (if anywhere) a micro-batch fails.
NoFail == [at |-> -1, kind |-> "none"]
StepInputs ==
  [task : Tasks,
   losses : LossSeqs,
   fail : {NoFail} \cup [at : 0..(MaxAccum - 1), kind : FailKinds]]
\* The inputs drawn inside a training context: every loss the same value.
ContextInputs ==
  {inp \in StepInputs : /\ inp.losses = [k \in 1..MaxAccum |-> 1]
                        /\ inp.fail.kind \in {"none", "forward"}}

\* jiant_model.train()
model_train(w) ==
  IF w.raised # "none" THEN w
  ELSE emit([w EXCEPT !.mode = "train"], "jiant_model.train")

\* task_sampler.pop(): the policy is the sampler's own, the task is an input.
task_sampler_pop(w) ==
  IF w.raised # "none" THEN w
  ELSE emit([w EXCEPT !.task_sampler = @ + 1], "task_sampler.pop")

\* A pop that always reads the first train task's cursor.
dataloader_pop_first_task(w, task_name) ==
  IF w.raised # "none" THEN w
  ELSE emit([w EXCEPT !.cursors[train_task_list[1]] = @ + 1], "dataloader.pop")

\* train_dataloader_dict[task_name].pop(): the next batch of that task's
\* InfiniteYield, named <<task, index>>.
dataloader_pop(w, task_name) ==
  IF w.raised # "none" THEN w
  ELSE emit([w EXCEPT !.cursors[task_name] = @ + 1], "dataloader.pop")

\* wrap_jiant_forward(jiant_model=..., compute_loss=True): reads the model,
\* raises when the forward pass fails.
wrap_jiant_forward(w, which, fails) ==
  IF w.raised # "none" THEN w
  ELSE IF fails THEN raise(emit(w, which), "forward")
  ELSE emit(w, which)

\* complex_backpropagate: scales the loss by 1/N and backpropagates it, which
\* adds this micro-batch's gradient to .grad.  It never steps the optimizer.
\* A backward pass that fails raises and adds nothing.
complex_backpropagate(w, id, kind) ==
  IF w.raised # "none" THEN w
  ELSE IF kind = "backward" THEN raise(emit(w, "backward"), "backward")
  ELSE emit([w EXCEPT !.grad = Append(@, id)], "backward")

\* optimizer_scheduler.step(): applies whatever .grad holds.
optimizer_scheduler_step(w, id) ==
  IF w.raised # "none" THEN w
  ELSE emit([w EXCEPT !.optimizer_steps = @ + 1,
                      !.applied = [call |-> id, grad |-> w.grad]],
            "optimizer_scheduler.step")

\* optimizer_scheduler.optimizer.zero_grad()
zero_grad(w) ==
  IF w.raised # "none" THEN w
  ELSE emit([w EXCEPT !.grad = <<>>], "optimizer.zero_grad")

\* train_state.step(task_name=task_name), inside a runner method.
train_state_step(w, task_name) ==
  IF w.raised # "none" THEN w
  ELSE LET r == step(w.train_state, task_name)
       IN IF r.raised # "none" THEN raise(emit(w, "train_state.step"), r.raised)
          ELSE emit([w EXCEPT !.train_state = r.self], "train_state.step")

\* log_writer.write_entry("loss_train", {...}); loss_val / N is kept as the
\* fraction num / den.
write_entry(w, task_name, N) ==
  IF w.raised # "none" THEN w
  ELSE emit([w EXCEPT !.log = Append(@,
               [task |-> task_name,
                task_step |-> w.train_state.task_steps[task_name],
                global_step |-> w.train_state.global_steps,
                loss_val |-> [num |-> w.loss_val, den |-> N]])],
            "log_writer.write_entry")

\* A loop body that assigns loss.item() to loss_val instead of adding it.
micro_batch_assigning(w, id, task_name, i, inp, keep) ==
  LET batch == <<task_name, w.cursors[task_name]>>
      w1 == dataloader_pop(w, task_name)
      w2 == IF keep /\ w1.raised = "none"
            THEN [w1 EXCEPT !.meta_batches = Append(@, batch)] ELSE w1
      w3 == wrap_jiant_forward(w2, "forward",
                               inp.fail.at = i /\ inp.fail.kind = "forward")
      w4 == complex_backpropagate(w3, id,
               IF inp.fail.at = i THEN inp.fail.kind ELSE "none")
  IN IF w4.raised # "none" THEN w4
     ELSE [w4 EXCEPT !.loss_val = inp.losses[i + 1]]

\* ------------------------------------------------ JiantRunner.run_train_step
\* One pass of the accumulation loop body (lines 105-114, 375-386): pop a
\* batch, forward it, backpropagate the scaled loss, add loss.item().
micro_batch(w, id, task_name, i, inp, keep) ==
  LET batch == <<task_name, w.cursors[task_name]>>
      w1 == dataloader_pop(w, task_name)
      w2 == IF keep /\ w1.raised = "none"
            THEN [w1 EXCEPT !.meta_batches = Append(@, batch)] ELSE w1
      w3 == wrap_jiant_forward(w2, "forward",
                               inp.fail.at = i /\ inp.fail.kind = "forward")
      w4 == complex_backpropagate(w3, id,
               IF inp.fail.at = i THEN inp.fail.kind ELSE "none")
  IN IF w4.raised # "none" THEN w4
     ELSE [w4 EXCEPT !.loss_val = @ + inp.losses[i + 1]]

\* A loop that steps and zeroes after every micro-batch (no accumulation).
RECURSIVE accumulation_loop_stepping(_, _, _, _, _, _, _)
accumulation_loop_stepping(w, id, task_name, i, N, inp, keep) ==
  IF w.raised # "none" \/ i >= N THEN w
  ELSE accumulation_loop_stepping(
         zero_grad(optimizer_scheduler_step(
           micro_batch(w, id, task_name, i, inp, keep), id)),
         id, task_name, i + 1, N, inp, keep)

\* A loop that catches a failing micro-batch and goes on to the next.
RECURSIVE accumulation_loop_swallowing(_, _, _, _, _, _, _)
accumulation_loop_swallowing(w, id, task_name, i, N, inp, keep) ==
  IF i >= N THEN w
  ELSE accumulation_loop_swallowing(
         raise(micro_batch(w, id, task_name, i, inp, keep), "none"),
         id, task_name, i + 1, N, inp, keep)

\* for i in range(gradient_accumulation_steps): ...
RECURSIVE accumulation_loop(_, _, _, _, _, _, _)
accumulation_loop(w, id, task_name, i, N, inp, keep) ==
  IF w.raised # "none" \/ i >= N THEN w
  ELSE accumulation_loop(micro_batch(w, id, task_name, i, inp, keep),
                         id, task_name, i + 1, N, inp, keep)

\* The log entry written before the TrainState is advanced.
log_then_advance(w, task_name, N) ==
  train_state_step(write_entry(w, task_name, N), task_name)

\* Lines 119-128 (393-402): advance the TrainState, then write the log entry.
advance_and_log(w, task_name, N) ==
  write_entry(train_state_step(w, task_name), task_name, N)

\* A step that zeroes the gradients before it steps the optimizer.
run_train_step_zero_first(w, id, inp) ==
  LET task_name == inp.task
      N == gradient_accumulation_steps[task_name]
      w1 == task_sampler_pop(model_train(w))
      w2 == accumulation_loop([w1 EXCEPT !.loss_val = 0], id, task_name, 0, N,
                              inp, FALSE)
      w3 == optimizer_scheduler_step(zero_grad(w2), id)
  IN advance_and_log(w3, task_name, N)

\* JiantRunner.run_train_step(train_dataloader_dict, train_state), call id.
run_train_step(w, id, inp) ==
  LET task_name == inp.task
      N == gradient_accumulation_steps[task_name]
      w1 == task_sampler_pop(model_train(w))
      w2 == accumulation_loop([w1 EXCEPT !.loss_val = 0], id, task_name, 0, N,
                              inp, FALSE)
      w3 == zero_grad(optimizer_scheduler_step(w2, id))
  IN advance_and_log(w3, task_name, N)

\* ------------------------------------------------------------ L2TWWRunner
\* run_inner_loop's default inner_steps.
inner_steps == 1

\* The teacher model: whether its parameters track gradients, the version of
\* their values, and its mode.  A JiantRunner has none.
NoTeacher == [requires_grad |-> FALSE, value |-> 0, mode |-> "none"]
\* The teacher model handed to the constructor.
GivenTeachers == [requires_grad : BOOLEAN, value : {0}, mode : {"train"}]

\* A constructor that keeps the teacher as it was given.
L2TWWRunner_init_unfrozen(teacher_jiant_model) == teacher_jiant_model

\* L2TWWRunner.__init__: p.requires_grad = False for every teacher parameter.
L2TWWRunner_init(teacher_jiant_model) ==
  [teacher_jiant_model EXCEPT !.requires_grad = FALSE]

\* The teacher a newly constructed runner of runner_class holds.
construct_teacher(given) ==
  IF runner_class = "L2TWWRunner" THEN L2TWWRunner_init(given) ELSE NoTeacher

\* Largest number of teacher layers and of student layers.
MaxLayers == 2
\* The values a pair's weighted squared-difference term (line 324) may take.
TermValues == {0, 1, 2}
\* The attributes MetaWhatAndWhere.__init__ sets on the module.
MetaWhatAndWhere_attributes == {"what_network", "where_network"}

\* No call of the matching module made on its own.
NoMatching == [M |-> 0, S |-> 0, terms |-> <<>>, called |-> FALSE,
               raised |-> "none", value |-> 0]

\* Lines 318-326: for each teacher layer m the inner loop over the student
\* layers n rebinds diff, and matching_loss += diff runs once per m, after the
\* inner loop, with the diff of the last n.  With no student layer diff is
\* never bound.
RECURSIVE matching_loss_loop(_, _, _, _, _)
matching_loss_loop(terms, M, S, m, matching_loss) ==
  IF m > M THEN [raised |-> "none", value |-> matching_loss]
  ELSE IF S = 0 THEN [raised |-> "UnboundLocalError", value |-> 0]
  ELSE matching_loss_loop(terms, M, S, m + 1, matching_loss + terms[m][S])

\* MetaWhatAndWhere.forward(teacher_states, student_states) with M teacher
\* and S student layers: line 315 reads self.what_where_net first.
MetaWhatAndWhere_forward_result(terms, M, S) ==
  IF "what_where_net" \notin MetaWhatAndWhere_attributes
  THEN [raised |-> "AttributeError", value |-> 0]
  ELSE matching_loss_loop(terms, M, S, 1, 0)

\* MetaWhatAndWhere.forward: calls the What and the Where network, then reads
\* self.what_where_net, an attribute MetaWhatAndWhere never sets (only the
\* runner has one): nn.Module.__getattr__ raises AttributeError, so the inline
\* formula of lines 318-326 is never reached.
MetaWhatAndWhere_forward(w) ==
  IF w.raised # "none" THEN w
  ELSE raise(emit(emit(emit(w, "what_network"), "where_network"),
                  "what_where_net"),
             "AttributeError")

\* outer_objective: one student forward; it has no return statement, so the
\* caller's .backward() is called on None.
outer_objective(w) ==
  IF w.raised # "none" THEN w
  ELSE raise(wrap_jiant_forward(w, "outer_forward", FALSE), "AttributeError")

\* One inner step (lines 342-356).
inner_step(w, id) ==
  LET w1 == zero_grad(w)
      w2 == wrap_jiant_forward(w1, "inner_forward", FALSE)
      w3 == wrap_jiant_forward(w2, "teacher_forward", FALSE)
      w4 == MetaWhatAndWhere_forward(w3)
  IN IF w4.raised # "none" THEN w4
     ELSE emit(emit([w4 EXCEPT !.grad = Append(@, id)], "inner_backward"),
               "optimizer.step")

RECURSIVE inner_steps_loop(_, _, _)
inner_steps_loop(w, id, k) ==
  IF w.raised # "none" \/ k >= inner_steps THEN w
  ELSE inner_steps_loop(inner_step(w, id), id, k + 1)

\* The outer update after a batch's inner steps (lines 358-362).
outer_update(w) ==
  LET w1 == IF w.raised # "none" THEN w
            ELSE zero_grad(emit(w, "meta_optimizer.zero_grad"))
      w2 == outer_objective(w1)
  IN IF w2.raised # "none" THEN w2
     ELSE emit(emit(w2, "optimizer.meta_backward"), "meta_optimizer.step")

RECURSIVE meta_batches_loop(_, _, _)
meta_batches_loop(w, id, batches) ==
  IF w.raised # "none" \/ batches = <<>> THEN w
  ELSE meta_batches_loop(outer_update(inner_steps_loop(w, id, 0)), id,
                         Tail(batches))

\* L2TWWRunner.run_inner_loop(meta_batches, task)
run_inner_loop(w, id, meta_batches) ==
  IF w.raised # "none" THEN w
  ELSE meta_batches_loop(emit([w EXCEPT !.teacher.mode = "eval"],
                              "teacher.eval"), id, meta_batches)

\* L2TWWRunner.run_train_step(train_dataloader_dict, train_state)
L2TWW_run_train_step(w, id, inp) ==
  LET task_name == inp.task
      N == gradient_accumulation_steps[task_name]
      w1 == task_sampler_pop(model_train(w))
      w2 == accumulation_loop([w1 EXCEPT !.loss_val = 0, !.meta_batches = <<>>],
                              id, task_name, 0, N, inp, TRUE)
      w3 == zero_grad(optimizer_scheduler_step(w2, id))
      w4 == run_inner_loop(w3, id, w3.meta_batches)
  IN advance_and_log(w4, task_name, N)

\* self.run_train_step, dispatched on the runner's class.
self_run_train_step(w, id, inp) ==
  IF runner_class = "L2TWWRunner" THEN L2TWW_run_train_step(w, id, inp)
  ELSE run_train_step(w, id, inp)

\* ------------------------------------------------------ training contexts
\* get_train_dataloader_dict: a fresh InfiniteYield per train task.
get_train_dataloader_dict == [t \in Tasks |-> 0]

\* The generator object: its kind, where it stands, whether its body has
\* started, start_position and the range iterator (pos, stop); and what the
\* consumer can count: the elements yielded, the run_train_step calls made,
\* and the collaborators' counters when it was created (log0, sampler0, opt0).
NoGen == [kind |-> "none", status |-> "none", started |-> FALSE, start |-> 0,
          pos |-> 0, stop |-> 0, yielded |-> 0, calls |-> 0, log0 |-> 0,
          sampler0 |-> 0, opt0 |-> 0]
GenActive == gen.status \in {"created", "suspended"}

\* Calling run_train_context / resume_train_context only creates the
\* generator: no line of the body runs before the first next().
new_context(kind) ==
  [NoGen EXCEPT !.kind = kind, !.status = "created", !.log0 = Len(log),
                !.sampler0 = task_sampler, !.opt0 = optimizer_steps]

\* A prelude whose range always starts at 0, whatever the TrainState says.
context_prelude_from_zero(g, w) ==
  IF g.started THEN [g |-> g, w |-> w]
  ELSE LET ts == IF g.kind = "run_train_context"
                 THEN from_task_name_list(train_task_list)
                 ELSE w.train_state
           start == IF g.kind = "run_train_context" THEN 0 ELSE ts.global_steps
       IN [g |-> [g EXCEPT !.started = TRUE, !.start = start, !.pos = 0,
                           !.stop = max_steps],
           w |-> [w EXCEPT !.train_state = ts,
                           !.cursors = get_train_dataloader_dict]]

\* The body up to the loop (lines 69-72, 84-85), run by the first next().
context_prelude(g, w) ==
  IF g.started THEN [g |-> g, w |-> w]
  ELSE LET ts == IF g.kind = "run_train_context"
                 THEN from_task_name_list(train_task_list)
                 ELSE w.train_state
           start == IF g.kind = "run_train_context" THEN 0 ELSE ts.global_steps
       IN [g |-> [g EXCEPT !.started = TRUE, !.start = start, !.pos = start,
                           !.stop = max_steps],
           w |-> [w EXCEPT !.train_state = ts,
                           !.cursors = get_train_dataloader_dict]]

\* Whether the range iterator has another element.
range_has_next(g) == g.pos < g.stop

\* A body that yields first and trains on resumption.
context_body_yield_first(g, w, id, inp) ==
  IF g.status = "created"
  THEN [g |-> [g EXCEPT !.status = "suspended", !.pos = @ + 1,
                        !.yielded = @ + 1], w |-> w]
  ELSE LET w1 == self_run_train_step(w, id, inp)
       IN IF w1.raised # "none"
          THEN [g |-> [g EXCEPT !.status = "raised", !.calls = @ + 1], w |-> w1]
          ELSE [g |-> [g EXCEPT !.status = "suspended", !.pos = @ + 1,
                                !.yielded = @ + 1, !.calls = @ + 1], w |-> w1]

\* One pass of the loop body (lines 78-81, 93-96): the step, then the yield.
context_body(g, w, id, inp) ==
  LET w1 == self_run_train_step(w, id, inp)
  IN IF w1.raised # "none"
     THEN [g |-> [g EXCEPT !.status = "raised", !.calls = @ + 1], w |-> w1]
     ELSE [g |-> [g EXCEPT !.status = "suspended", !.pos = @ + 1,
                           !.yielded = @ + 1, !.calls = @ + 1], w |-> w1]

\* next() on the generator.
context_next(g, w, id, inp) ==
  LET p == context_prelude(g, w)
  IN IF range_has_next(p.g) THEN context_body(p.g, Entry(p.w), id, inp)
     ELSE [g |-> [p.g EXCEPT !.status = "exhausted"],
           w |-> raise(p.w, "StopIteration")]

\* --------------------------------------------------------------- actions
Commit(w) ==
  /\ train_state' = w.train_state
  /\ task_sampler' = w.task_sampler
  /\ train_dataloader_dict' = w.cursors
  /\ grad' = w.grad
  /\ optimizer_steps' = w.optimizer_steps
  /\ applied' = w.applied
  /\ log' = w.log
  /\ model_mode' = w.mode
  /\ teacher' = w.teacher

Record(op, inp, pre, w) ==
  [op |-> op, inp |-> inp, pre |-> pre, events |-> w.events,
   raised |-> w.raised, loss_val |-> w.loss_val,
   meta_batches |-> w.meta_batches]

NoInput == [task |-> "-", losses |-> <<>>, fail |-> NoFail]

InitState ==
  /\ train_state = from_task_name_list(train_task_list)
  /\ task_sampler = 0
  /\ train_dataloader_dict = get_train_dataloader_dict
  /\ grad = <<>>
  /\ optimizer_steps = 0
  /\ applied = [call |-> 0, grad |-> <<>>]
  /\ log = <<>>
  /\ model_mode = "train"
  /\ teacher \in {construct_teacher(given) : given \in GivenTeachers}
  /\ gen = NoGen
  /\ ncalls = 0
  /\ ndirect = 0
  /\ last = [op |-> "init", inp |-> NoInput,
             pre |-> [train_state |-> from_task_name_list(train_task_list),
                      task_sampler |-> 0, cursors |-> get_train_dataloader_dict,
                      grad |-> <<>>, optimizer_steps |-> 0,
                      applied |-> [call |-> 0, grad |-> <<>>], log |-> <<>>,
                      mode |-> "train", events |-> <<>>, raised |-> "none",
                      loss_val |-> 0, meta_batches |-> <<>>],
             events |-> <<>>, raised |-> "none", loss_val |-> 0,
             meta_batches |-> <<>>]

\* No evaluation has run.
NoEval == [op |-> "none", task_name_list |-> <<>>, use_subset |-> FALSE,
           return_preds |-> FALSE, pre_mode |-> "train", events |-> <<>>,
           raised |-> "none", result |-> "none"]

\* The evaluation side of a training run: non-distributed, empty caches.
InitNoEval ==
  /\ local_rank = -1
  /\ test_task_list = train_task_list
  /\ cache_len = [t \in Tasks |-> 0]
  /\ eval_subset_num = 0
  /\ eval_batch_size = 1
  /\ last_eval = NoEval

\* A runner of either class, every per-task accumulation count; the caller
\* drives run_train_step itself, so max_steps is never read.
Init ==
  /\ runner_class \in {"JiantRunner", "L2TWWRunner"}
  /\ gradient_accumulation_steps \in [Tasks -> 1..MaxAccum]
  /\ max_steps = 0
  /\ InitState
  /\ matching = NoMatching
  /\ InitNoEval

\* A runner of either class, one accumulation count for all tasks, every
\* max_steps; the caller trains through the contexts.
InitContext ==
  /\ runner_class \in {"JiantRunner", "L2TWWRunner"}
  /\ gradient_accumulation_steps \in {[t \in Tasks |-> n] : n \in 1..MaxAccum}
  /\ max_steps \in 0..MaxSteps
  /\ InitState
  /\ matching = NoMatching
  /\ InitNoEval

\* The caller steps a TrainState it holds, before it opens a context.
TrainStateStep ==
  /\ gen.kind = "none"
  /\ ndirect < MaxDirect
  /\ \E name \in Tasks \cup {UnknownTask} :
       LET r == step(train_state, name)
       IN /\ train_state' = r.self
          /\ last' = Record("TrainState.step", [NoInput EXCEPT !.task = name],
                            World, raise(World, r.raised))
  /\ ndirect' = ndirect + 1
  /\ UNCHANGED <<cfgVars, matching, last_eval, task_sampler, train_dataloader_dict, grad,
                 optimizer_steps, applied, log, model_mode, teacher, gen,
                 ncalls>>

\* The caller calls runner.run_train_step itself.
CallRunTrainStep ==
  /\ gen.kind = "none"
  /\ ncalls < MaxCalls
  /\ \E inp \in StepInputs :
       LET w == self_run_train_step(World, ncalls + 1, inp)
       IN /\ Commit(w)
          /\ last' = Record("run_train_step", inp, World, w)
  /\ ncalls' = ncalls + 1
  /\ UNCHANGED <<cfgVars, matching, last_eval, gen, ndirect>>

\* runner.run_train_context(): how the caller starts a training run.
RunTrainContext ==
  /\ gen.kind = "none"
  /\ gen' = new_context("run_train_context")
  /\ last' = Record("run_train_context", NoInput, World, World)
  /\ UNCHANGED <<cfgVars, matching, last_eval, train_state, task_sampler, train_dataloader_dict,
                 grad, optimizer_steps, applied, log, model_mode, teacher,
                 ncalls, ndirect>>

\* runner.resume_train_context(train_state): how the caller starts from a
\* TrainState it holds, or goes on after a context that ended.
ResumeTrainContext ==
  /\ ~GenActive
  /\ gen' = new_context("resume_train_context")
  /\ last' = Record("resume_train_context", NoInput, World, World)
  /\ UNCHANGED <<cfgVars, matching, last_eval, train_state, task_sampler, train_dataloader_dict,
                 grad, optimizer_steps, applied, log, model_mode, teacher,
                 ncalls, ndirect>>

\* The consumer asks the context for its next element.
ContextNext ==
  /\ GenActive
  /\ \E inp \in ContextInputs :
       LET p == context_prelude(gen, World)
           r == context_next(gen, World, ncalls + 1, inp)
           stepped == range_has_next(p.g)
       IN /\ stepped => ncalls < MaxSteps
          /\ gen' = r.g
          /\ Commit(r.w)
          /\ ncalls' = IF stepped THEN ncalls + 1 ELSE ncalls
          /\ last' = Record("next", IF stepped THEN inp ELSE NoInput,
                            Entry(p.w), r.w)
  /\ UNCHANGED <<cfgVars, matching, last_eval, ndirect>>

\* The consumer stops iterating and drops the generator.
ContextClose ==
  /\ GenActive
  /\ gen' = [gen EXCEPT !.status = "closed"]
  /\ last' = Record("close", NoInput, World, World)
  /\ UNCHANGED <<cfgVars, matching, last_eval, train_state, task_sampler, train_dataloader_dict,
                 grad, optimizer_steps, applied, log, model_mode, teacher,
                 ncalls, ndirect>>

Next == CallRunTrainStep

Spec == Init /\ [][Next]_vars

\* One JiantRunner whose tasks do not accumulate; the caller steps the
\* TrainState itself and through run_train_step.
InitTrainState ==
  /\ runner_class = "JiantRunner"
  /\ gradient_accumulation_steps = [t \in Tasks |-> 1]
  /\ max_steps = 0
  /\ InitState
  /\ matching = NoMatching
  /\ InitNoEval

NextTrainState ==
  \/ TrainStateStep
  \/ CallRunTrainStep

SpecTrainState == InitTrainState /\ [][NextTrainState]_vars

NextContext ==
  \/ TrainStateStep
  \/ RunTrainContext
  \/ ResumeTrainContext
  \/ ContextNext
  \/ ContextClose

SpecContext == InitContext /\ [][NextContext]_vars

\* ------------------------------------------------------------- evaluation
\* The record threaded through one evaluation call: the model's mode, the
\* collaborator invocations made (operation, task) and the exception raised.
EvalWorld == [mode |-> model_mode, events |-> <<>>, raised |-> "none"]
eval_emit(e, op, task) ==
  [e EXCEPT !.events = Append(@, [op |-> op, task |-> task])]
EmptyDict == [t \in {} |-> 0]
put(dict, k, v) == [x \in DOMAIN dict \cup {k} |-> IF x = k THEN v ELSE dict[x]]
Min(a, b) == IF a <= b THEN a ELSE b

\* get_eval_dataloader_from_cache: a finite cursor over the cache's examples,
\* the first subset_num of them when a subset is asked for, in batches of
\* eval_batch_size; the model keeps its number of batches.
get_eval_dataloader_from_cache(task_name, use_subset) ==
  LET n == IF use_subset THEN Min(cache_len[task_name], eval_subset_num)
           ELSE cache_len[task_name]
  IN (n + eval_batch_size - 1) \div eval_batch_size

\* A helper that builds no cursor for a task the caller did not name.
RECURSIVE get_eval_dataloader_dict(_, _, _, _, _)
get_eval_dataloader_dict(e, phase, task_name_list, use_subset, dict) ==
  IF task_name_list = <<>> THEN [e |-> e, dict |-> dict]
  ELSE LET t == Head(task_name_list)
           e1 == eval_emit(e, "task_dict", t)
           e2 == eval_emit(e1, "task_cache_dict." \o phase, t)
           e3 == eval_emit(e2, "task_specific_configs", t)
           e4 == eval_emit(e3, "get_eval_dataloader_from_cache", t)
       IN get_eval_dataloader_dict(e4, phase, Tail(task_name_list), use_subset,
            put(dict, t, get_eval_dataloader_from_cache(t, use_subset)))

\* get_val_dataloader_dict(task_name_list, use_subset)
get_val_dataloader_dict(e, task_name_list, use_subset) ==
  get_eval_dataloader_dict(e, "val", task_name_list, use_subset, EmptyDict)

\* get_val_labels_dict: per task, read the config and the label cache handle,
\* load all labels, keep the first eval_subset_num when subsetting.
RECURSIVE get_val_labels_dict(_, _, _, _)
get_val_labels_dict(e, task_name_list, use_subset, dict) ==
  IF task_name_list = <<>> THEN [e |-> e, dict |-> dict]
  ELSE LET t == Head(task_name_list)
           e1 == eval_emit(e, "task_specific_configs", t)
           e2 == eval_emit(e1, "task_cache_dict.val_labels", t)
           e3 == eval_emit(e2, "val_labels_cache.get_all", t)
           n == IF use_subset THEN Min(cache_len[t], eval_subset_num)
                ELSE cache_len[t]
       IN get_val_labels_dict(e3, Tail(task_name_list), use_subset,
                              put(dict, t, n))

\* get_test_dataloader_dict(): built over the configured test_task_list.
get_test_dataloader_dict(e) ==
  get_eval_dataloader_dict(e, "test", test_task_list, FALSE, EmptyDict)

\* The batch loop of run_val / run_test: forward, then accumulator.update.
RECURSIVE eval_batches(_, _, _)
eval_batches(e, task, n) ==
  IF n = 0 THEN e
  ELSE eval_batches(eval_emit(eval_emit(e, "forward", task), "update", task),
                    task, n - 1)

\* What run_val / run_test return: None, or a dictionary with these keys
\* around an accumulator that saw `updates` batches.
None == [kind |-> "None", keys |-> {}, updates |-> 0]
Output(keys, updates) == [kind |-> "dict", keys |-> keys, updates |-> updates]

\* A run_val that puts the model in evaluation mode before the rank check.
run_val_eval_before_guard(e, task, val_dataloader, rank, return_preds) ==
  LET e1 == eval_emit([e EXCEPT !.mode = "eval"], "jiant_model.eval", task)
  IN IF rank # -1 THEN [e |-> e1, out |-> None]
     ELSE LET e2 == eval_emit(e1, "get_evaluation_scheme_for_task", task)
              e3 == eval_emit(e2, "get_accumulator", task)
              e4 == eval_batches(e3, task, val_dataloader)
          IN IF val_dataloader = 0
             THEN [e |-> [e4 EXCEPT !.raised = "ZeroDivisionError"],
                   out |-> None]
             ELSE [e |-> eval_emit(e4, "compute_metrics_from_accumulator", task),
                   out |-> Output({"accumulator", "loss", "metrics"},
                                  val_dataloader)]

\* run_val(val_dataloader, val_labels, jiant_model, task, device, local_rank,
\* return_preds): the module-level function.
run_val(e, task, val_dataloader, rank, return_preds) ==
  IF rank # -1 THEN [e |-> e, out |-> None]
  ELSE LET e1 == eval_emit([e EXCEPT !.mode = "eval"], "jiant_model.eval", task)
           e2 == eval_emit(e1, "get_evaluation_scheme_for_task", task)
           e3 == eval_emit(e2, "get_accumulator", task)
           e4 == eval_batches(e3, task, val_dataloader)
       IN IF val_dataloader = 0
          THEN [e |-> [e4 EXCEPT !.raised = "ZeroDivisionError"], out |-> None]
          ELSE LET e5 == eval_emit(e4, "compute_metrics_from_accumulator", task)
               IN IF return_preds
                  THEN [e |-> eval_emit(e5, "get_preds_from_accumulator", task),
                        out |-> Output({"accumulator", "loss", "metrics", "preds"},
                                       val_dataloader)]
                  ELSE [e |-> e5,
                        out |-> Output({"accumulator", "loss", "metrics"},
                                       val_dataloader)]

\* run_test(test_dataloader, jiant_model, task, device, local_rank): the
\* module-level function, return_preds left at its default True.
run_test(e, task, test_dataloader, rank) ==
  IF rank # -1 THEN [e |-> e, out |-> None]
  ELSE LET e1 == eval_emit([e EXCEPT !.mode = "eval"], "jiant_model.eval", task)
           e2 == eval_emit(e1, "get_evaluation_scheme_for_task", task)
           e3 == eval_emit(e2, "get_accumulator", task)
           e4 == eval_batches(e3, task, test_dataloader)
       IN [e |-> eval_emit(e4, "get_preds_from_accumulator", task),
           out |-> Output({"accumulator", "preds"}, test_dataloader)]

\* The per-task loop of JiantRunner.run_val (lines 138-149).
RECURSIVE run_val_loop(_, _, _, _, _)
run_val_loop(e, task_name_list, val_dataloader_dict, return_preds, evaluate_dict) ==
  IF e.raised # "none" \/ task_name_list = <<>>
  THEN [e |-> e, out |-> evaluate_dict]
  ELSE LET t == Head(task_name_list)
           r == run_val(eval_emit(e, "task_dict", t), t, val_dataloader_dict[t],
                        local_rank, return_preds)
       IN run_val_loop(r.e, Tail(task_name_list), val_dataloader_dict,
                       return_preds, put(evaluate_dict, t, r.out))

\* JiantRunner.run_val(task_name_list, use_subset, return_preds)
JiantRunner_run_val(e, task_name_list, use_subset, return_preds) ==
  LET d == get_val_dataloader_dict(e, task_name_list, use_subset)
      l == get_val_labels_dict(d.e, task_name_list, use_subset, EmptyDict)
  IN run_val_loop(l.e, task_name_list, d.dict, return_preds, EmptyDict)

\* The per-task loop of JiantRunner.run_test (lines 155-164).
RECURSIVE run_test_loop(_, _, _, _)
run_test_loop(e, task_name_list, test_dataloader_dict, evaluate_dict) ==
  IF e.raised # "none" \/ task_name_list = <<>>
  THEN [e |-> e, out |-> evaluate_dict]
  ELSE LET t == Head(task_name_list)
           e1 == eval_emit(e, "task_dict", t)
       IN IF t \notin DOMAIN test_dataloader_dict
          THEN [e |-> [e1 EXCEPT !.raised = "KeyError"], out |-> evaluate_dict]
          ELSE LET r == run_test(e1, t, test_dataloader_dict[t], local_rank)
               IN run_test_loop(r.e, Tail(task_name_list), test_dataloader_dict,
                                put(evaluate_dict, t, r.out))

\* JiantRunner.run_test(task_name_list)
JiantRunner_run_test(e, task_name_list) ==
  LET d == get_test_dataloader_dict(e)
  IN run_test_loop(d.e, task_name_list, d.dict, EmptyDict)

\* The task lists a caller passes: every list of distinct tasks.
TaskLists ==
  {l \in UNION {[1..n -> Tasks] : n \in 0..Cardinality(Tasks)} :
     \A a, b \in 1..Len(l) : a # b => l[a] # l[b]}

EvalRecord(op, task_name_list, use_subset, return_preds, r) ==
  [op |-> op, task_name_list |-> task_name_list, use_subset |-> use_subset,
   return_preds |-> return_preds, pre_mode |-> model_mode,
   events |-> r.e.events, raised |-> r.e.raised,
   result |-> IF r.e.raised # "none" THEN "none" ELSE r.out]

trainVars == <<train_state, task_sampler, train_dataloader_dict, grad,
               optimizer_steps, applied, log, gen, ncalls, ndirect, last,
               teacher>>

\* Any rank, any configured test list, any cache and subset size.
InitEval ==
  /\ runner_class = "JiantRunner"
  /\ gradient_accumulation_steps = [t \in Tasks |-> 1]
  /\ max_steps = 0
  /\ InitState
  /\ matching = NoMatching
  /\ local_rank \in {-1, 0, 1}
  /\ test_task_list \in {l \in TaskLists : Len(l) <= 1 \/ l = train_task_list}
  /\ cache_len \in [Tasks -> 0..MaxExamples]
  /\ eval_subset_num \in 0..MaxExamples
  /\ eval_batch_size \in {1, 2}
  /\ last_eval = NoEval

\* runner.run_val(task_name_list, use_subset, return_preds)
RunVal ==
  /\ \E task_name_list \in TaskLists, use_subset \in BOOLEAN,
        return_preds \in BOOLEAN :
       LET r == JiantRunner_run_val(EvalWorld, task_name_list, use_subset,
                                    return_preds)
       IN /\ model_mode' = r.e.mode
          /\ last_eval' = EvalRecord("run_val", task_name_list, use_subset,
                                     return_preds, r)
  /\ UNCHANGED <<cfgVars, matching, trainVars>>

\* runner.run_test(task_name_list)
RunTest ==
  /\ \E task_name_list \in TaskLists :
       LET r == JiantRunner_run_test(EvalWorld, task_name_list)
       IN /\ model_mode' = r.e.mode
          /\ last_eval' = EvalRecord("run_test", task_name_list, FALSE, TRUE, r)
  /\ UNCHANGED <<cfgVars, matching, trainVars>>

NextEval ==
  \/ RunVal
  \/ RunTest

SpecEval == InitEval /\ [][NextEval]_vars

\* ------------------------------------------------- the L2TWWRunner's teacher
\* The caller calls runner.run_inner_loop(meta_batches, task) itself, with
\* batches of one task.
CallRunInnerLoop ==
  /\ runner_class = "L2TWWRunner"
  /\ gen.kind = "none"
  /\ ncalls < MaxCalls
  /\ \E t \in Tasks, n \in 0..MaxAccum :
       LET batches == [k \in 1..n |-> <<t, k - 1>>]
           w0 == [World EXCEPT !.meta_batches = batches]
           w == run_inner_loop(w0, ncalls + 1, batches)
       IN /\ Commit(w)
          /\ last' = Record("run_inner_loop", [NoInput EXCEPT !.task = t], w0, w)
  /\ ncalls' = ncalls + 1
  /\ UNCHANGED <<cfgVars, matching, last_eval, gen, ndirect>>

\* runner.load_state(runner_state): loads the student model's and the
\* optimizer's state dictionaries (lines 238-240).
load_state(w) ==
  emit(emit(w, "jiant_model.load_state_dict"), "optimizer.load_state_dict")

LoadState ==
  /\ last.op # "load_state"
  /\ last' = Record("load_state", NoInput, World, load_state(World))
  /\ UNCHANGED <<cfgVars, matching, last_eval, train_state, task_sampler,
                 train_dataloader_dict, grad, optimizer_steps, applied, log,
                 model_mode, teacher, gen, ncalls, ndirect>>

\* An L2TWWRunner, one accumulation count for all tasks, non-distributed, one
\* cached example per task.
InitTeacher ==
  /\ runner_class = "L2TWWRunner"
  /\ gradient_accumulation_steps \in {[t \in Tasks |-> n] : n \in 1..MaxAccum}
  /\ max_steps = 0
  /\ InitState
  /\ matching = NoMatching
  /\ local_rank = -1
  /\ test_task_list = train_task_list
  /\ cache_len = [t \in Tasks |-> 1]
  /\ eval_subset_num = 1
  /\ eval_batch_size = 1
  /\ last_eval = NoEval

\* One evaluation of all the tasks, at any point of the training calls.
TeacherRunVal ==
  /\ last_eval.op = "none"
  /\ RunVal
  /\ last_eval'.task_name_list = train_task_list
  /\ last_eval'.return_preds

TeacherRunTest ==
  /\ last_eval.op = "none"
  /\ RunTest
  /\ last_eval'.task_name_list = train_task_list

NextTeacher ==
  \/ CallRunTrainStep
  \/ CallRunInnerLoop
  \/ TeacherRunVal
  \/ TeacherRunTest
  \/ LoadState

SpecTeacher == InitTeacher /\ [][NextTeacher]_vars

\* ------------------------------------------------- the matching module
\* The matching module is called on M teacher and S student layers whose
\* pair terms are given.
InitMatching ==
  /\ runner_class = "L2TWWRunner"
  /\ gradient_accumulation_steps = [t \in Tasks |-> 1]
  /\ max_steps = 0
  /\ InitState
  /\ InitNoEval
  /\ \E M \in 0..MaxLayers, S \in 0..MaxLayers :
       matching \in {[NoMatching EXCEPT !.M = M, !.S = S, !.terms = t] :
                       t \in [1..M -> [1..S -> TermValues]]}

CallMatching ==
  /\ ~matching.called
  /\ LET r == MetaWhatAndWhere_forward_result(matching.terms, matching.M,
                                              matching.S)
     IN matching' = [matching EXCEPT !.called = TRUE, !.raised = r.raised,
                                     !.value = r.value]
  /\ UNCHANGED <<cfgVars, trainVars, last_eval, model_mode>>

NextMatching == CallMatching

SpecMatching == InitMatching /\ [][NextMatching]_vars

\* ================================================================ claims
\* The last operation was a run_train_step call (made by the caller or by a
\* context's next()), on task CallTask with CallN accumulation steps.
Called == last.op \in {"run_train_step", "next"} /\ last.inp.task \in Tasks
Completed == Called /\ last.raised = "none"
CallTask == last.inp.task
CallN == gradient_accumulation_steps[last.inp.task]
\* A micro-batch of the call's accumulation window failed.
WindowFailed == Called /\ last.inp.fail.at >= 0 /\ last.inp.fail.at < CallN
IndexOf(s, e) == IF Count(s, e) = 0 THEN 0
                 ELSE CHOOSE k \in 1..Len(s) :
                        s[k] = e /\ \A j \in 1..(k - 1) : s[j] # e
Prefix(s, n) == SubSeq(s, 1, n)

\* C1: global_steps equals the sum of all task_steps values after every
\* TrainState.step call, successful or failing, made by the caller or by
\* run_train_step, on a state created by from_task_name_list.
C1_GlobalStepsIsSum ==
  train_state.global_steps
    = SumOver(train_state.task_steps, DOMAIN train_state.task_steps)
C1_Witness ==
  /\ last.op = "TrainState.step"
  /\ last.raised = "KeyError"
  /\ train_state.task_steps["taskA"] >= 1
  /\ train_state.task_steps["taskB"] >= 1

\* C2: a completed run_train_step call made exactly one optimizer step and
\* exactly one gradient-zeroing, whatever the task's N.
C2_OneStepOneZeroGrad ==
  Completed =>
    /\ Count(last.events, "optimizer_scheduler.step") = 1
    /\ Count(last.events, "optimizer.zero_grad") = 1
    /\ optimizer_steps = last.pre.optimizer_steps + 1
C2_Witness ==
  /\ Completed
  /\ CallN >= 2
  /\ Count(last.events, "backward") = CallN
  /\ Count(last.events, "optimizer_scheduler.step") = 1

\* C3: in a call, the optimizer step comes after all N forward and N backward
\* calls of the window, no micro-batch follows it, and every gradient-zeroing
\* comes after it.
C3_StepAfterWholeWindow ==
  Called =>
    \A j \in 1..Len(last.events) :
      /\ last.events[j] = "optimizer_scheduler.step" =>
           /\ Count(Prefix(last.events, j - 1), "forward") = CallN
           /\ Count(Prefix(last.events, j - 1), "backward") = CallN
           /\ \A k \in (j + 1)..Len(last.events) :
                last.events[k] \notin {"dataloader.pop", "forward", "backward"}
      /\ last.events[j] = "optimizer.zero_grad" =>
           \E i \in 1..(j - 1) : last.events[i] = "optimizer_scheduler.step"
C3_Witness ==
  /\ Completed
  /\ CallN >= 2
  /\ IndexOf(last.events, "optimizer_scheduler.step") > 3 * CallN
  /\ IndexOf(last.events, "optimizer.zero_grad")
       = IndexOf(last.events, "optimizer_scheduler.step") + 1

\* C4: the log record of a completed call carries the counters after the
\* call's increment (pre-call global_steps + 1, pre-call task counter + 1)
\* and is written after the optimizer step.
C4_LogReflectsPostStepState ==
  Completed =>
    /\ Len(log) = Len(last.pre.log) + 1
    /\ Prefix(log, Len(last.pre.log)) = last.pre.log
    /\ Last(log).task = CallTask
    /\ Last(log).global_step = last.pre.train_state.global_steps + 1
    /\ Last(log).task_step = last.pre.train_state.task_steps[CallTask] + 1
    /\ IndexOf(last.events, "log_writer.write_entry")
         > IndexOf(last.events, "optimizer_scheduler.step")
    /\ IndexOf(last.events, "optimizer_scheduler.step") > 0
C4_Witness ==
  /\ Completed
  /\ last.pre.train_state.global_steps >= 1
  /\ last.pre.train_state.task_steps[CallTask] = 0
  /\ Last(log).global_step = 2
  /\ Last(log).task_step = 1

\* C5: a context started from global_steps = s (0 for run_train_context)
\* with max_steps = M, once exhausted, has made exactly max(0, M - s)
\* run_train_step calls, yielded as many elements and written as many log
\* records, with global_step s+1, ..., M in this order, and leaves
\* global_steps = M when s <= M.
C5_ExhaustedContextRanToMaxSteps ==
  gen.status = "exhausted" =>
    LET n == Max(0, max_steps - gen.start)
    IN /\ gen.kind = "run_train_context" => gen.start = 0
       /\ gen.yielded = n
       /\ gen.calls = n
       /\ optimizer_steps = gen.opt0 + n
       /\ Len(log) = gen.log0 + n
       /\ \A i \in 1..n : log[gen.log0 + i].global_step = gen.start + i
       /\ gen.start <= max_steps => train_state.global_steps = max_steps
C5_Witness ==
  /\ gen.kind = "run_train_context"
  /\ gen.status = "exhausted"
  /\ max_steps = 3
  /\ gradient_accumulation_steps["taskA"] = 2
  /\ train_state.task_steps["taskA"] = 3
  /\ train_state.global_steps = 3
  /\ optimizer_steps = 3
  /\ [i \in 1..Len(log) |-> log[i].global_step] = <<1, 2, 3>>

\* C6: the context is lazy.  When the consumer holds k elements (and also
\* after it stopped there), exactly k run_train_step calls have run in the
\* context: k sampler pops, k optimizer steps, k log records, the batches of
\* those k steps and no more; and an element is handed out only when its
\* step's optimizer step, TrainState advance and log record are done.
C6_ContextIsLazy ==
  /\ gen.status \in {"created", "suspended", "closed"} =>
       /\ gen.calls = gen.yielded
       /\ task_sampler = gen.sampler0 + gen.yielded
       /\ optimizer_steps = gen.opt0 + gen.yielded
       /\ Len(log) = gen.log0 + gen.yielded
       /\ gen.started =>
            /\ train_state.global_steps = gen.start + gen.yielded
            /\ SumOver(train_dataloader_dict, Tasks) =
                 SumSeq([i \in 1..gen.yielded |->
                           gradient_accumulation_steps[log[gen.log0 + i].task]])
  /\ gen.status = "suspended" =>
       /\ last.op = "next"
       /\ last.raised = "none"
       /\ Len(last.events) >= 4
       /\ SubSeq(last.events, Len(last.events) - 3, Len(last.events)) =
            <<"optimizer_scheduler.step", "optimizer.zero_grad",
              "train_state.step", "log_writer.write_entry">>
C6_Witness ==
  /\ gen.status = "closed"
  /\ gen.yielded >= 1
  /\ gen.pos < gen.stop
  /\ task_sampler = gen.sampler0 + gen.yielded
  /\ last.op = "close"

\* C7: when a micro-batch forward or backward of the window fails, the
\* exception leaves run_train_step before the optimizer step: no optimizer
\* step, no TrainState advance, no log record in that call.
C7_WindowFailureCommitsNothing ==
  WindowFailed =>
    /\ last.raised = last.inp.fail.kind
    /\ Count(last.events, "optimizer_scheduler.step") = 0
    /\ optimizer_steps = last.pre.optimizer_steps
    /\ applied = last.pre.applied
    /\ train_state = last.pre.train_state
    /\ log = last.pre.log
C7_Witness ==
  /\ WindowFailed
  /\ last.inp.fail.at >= 1
  /\ last.raised \in {"forward", "backward"}
  /\ Count(last.events, "backward") >= 1
  /\ last.pre.train_state.global_steps >= 1

\* C8 (as claimed): the gradient an optimizer step applies comes only from
\* the micro-batches of the call that takes the step, also after earlier
\* calls failed part-way.
C8_NoStaleGradientApplied ==
  \A k \in 1..Len(applied.grad) : applied.grad[k] = applied.call

\* C9: TrainState.step with a name of the original set adds exactly 1 to that
\* task's counter and to global_steps and changes nothing else; with any
\* other name it raises KeyError and changes nothing, adding no task.
C9_StepEffectAndKeyError ==
  last.op = "TrainState.step" =>
    IF last.inp.task \in Tasks
    THEN /\ last.raised = "none"
         /\ train_state.global_steps = last.pre.train_state.global_steps + 1
         /\ train_state.task_steps =
              [last.pre.train_state.task_steps EXCEPT ![last.inp.task] = @ + 1]
    ELSE /\ last.raised = "KeyError"
         /\ train_state = last.pre.train_state
         /\ DOMAIN train_state.task_steps = Tasks
C9_Witness ==
  /\ last.op = "TrainState.step"
  /\ last.inp.task = UnknownTask
  /\ last.raised = "KeyError"
  /\ train_state.global_steps >= 2

\* C10 (as claimed): run_val and run_test called with an empty task list
\* return an empty mapping and invoke no collaborator at all.
C10_EmptyListInvokesNothing ==
  (last_eval.op \in {"run_val", "run_test"} /\ last_eval.task_name_list = <<>>)
    => /\ last_eval.raised = "none"
       /\ last_eval.result = EmptyDict
       /\ last_eval.events = <<>>

\* The last operation was a run_val / run_test call of the runner; the
\* invocations it made of one collaborator operation, over all its tasks.
Evaluated == last_eval.op \in {"run_val", "run_test"}
EvalOps == [k \in 1..Len(last_eval.events) |-> last_eval.events[k].op]
EvalCount(op) == Count(EvalOps, op)
ModelOps == {"jiant_model.eval", "get_evaluation_scheme_for_task",
             "get_accumulator", "forward", "update",
             "compute_metrics_from_accumulator", "get_preds_from_accumulator"}

\* C11: under a non-primary distributed rank (local_rank neither -1 nor 0)
\* run_val and run_test run no forward pass, create no accumulator, leave the
\* model's mode as it was, and return None for every task asked for.
C11_NonPrimaryRankSkips ==
  (Evaluated /\ local_rank \notin {-1, 0}) =>
    /\ \A k \in 1..Len(EvalOps) : EvalOps[k] \notin ModelOps
    /\ model_mode = last_eval.pre_mode
    /\ last_eval.raised = "none" =>
         /\ DOMAIN last_eval.result = Range(last_eval.task_name_list)
         /\ \A t \in DOMAIN last_eval.result : last_eval.result[t] = None
C11_Witness ==
  /\ Evaluated
  /\ local_rank = 1
  /\ last_eval.op = "run_val"
  /\ last_eval.task_name_list = <<"taskA", "taskB">>
  /\ cache_len["taskA"] >= 1
  /\ last_eval.raised = "none"
  /\ last_eval.result["taskA"] = None

\* C12 (as claimed): the primary process evaluates: with local_rank 0 or -1 a
\* returning run_val / run_test creates an accumulator for every task asked
\* for and returns a result for it.
C12_PrimaryRankEvaluates ==
  (Evaluated /\ local_rank \in {-1, 0} /\ last_eval.raised = "none") =>
    /\ EvalCount("get_accumulator") = Len(last_eval.task_name_list)
    /\ \A t \in DOMAIN last_eval.result : last_eval.result[t] # None

\* C13: the teacher of an L2TWWRunner has gradient tracking disabled on its
\* parameters from construction on, and no run_train_step, run_inner_loop,
\* run_val, run_test or load_state call re-enables it or changes a teacher
\* parameter value.
C13_TeacherStaysFrozen ==
  runner_class = "L2TWWRunner" =>
    /\ teacher.requires_grad = FALSE
    /\ teacher.value = 0
C13_Witness ==
  /\ runner_class = "L2TWWRunner"
  /\ last.op = "run_inner_loop"
  /\ Count(last.events, "teacher_forward") >= 1
  /\ last.pre.optimizer_steps >= 1
  /\ teacher.mode = "eval"
  /\ teacher.requires_grad = FALSE
  /\ last_eval.op = "run_val"
  /\ Len(last_eval.task_name_list) >= 1

\* C14: the loss a completed call logs is the sum of the N scaled losses its
\* own micro-batches returned, divided by N, with nothing of another call.
C14_LoggedLossIsWindowMean ==
  Completed =>
    /\ Last(log).loss_val.num = SumSeq(Prefix(last.inp.losses, CallN))
    /\ Last(log).loss_val.den = CallN
C14_Witness ==
  /\ Completed
  /\ CallN = 2
  /\ Len(log) = 2
  /\ log[1].loss_val.num >= 1
  /\ last.inp.losses[1] # last.inp.losses[2]
  /\ log[2].loss_val.num = last.inp.losses[1] + last.inp.losses[2]

\* The last operation was a run_train_step call of an L2TWWRunner whose
\* accumulation window did not fail.
MetaCalled == Called /\ runner_class = "L2TWWRunner" /\ ~WindowFailed

\* C15 (as claimed): L2TWWRunner.run_train_step enters run_inner_loop exactly
\* once, after the optimizer step and the gradient-zeroing, with exactly the N
\* batches popped in this call in pop order, and then completes by advancing
\* the TrainState by one and writing one log record.
C15_MetaStepRunsInnerLoopAndCompletes ==
  MetaCalled =>
    /\ Count(last.events, "teacher.eval") = 1
    /\ IndexOf(last.events, "teacher.eval")
         > IndexOf(last.events, "optimizer.zero_grad")
    /\ IndexOf(last.events, "optimizer.zero_grad")
         > IndexOf(last.events, "optimizer_scheduler.step")
    /\ IndexOf(last.events, "optimizer_scheduler.step") > 0
    /\ last.meta_batches =
         [k \in 1..CallN |-> <<CallTask, last.pre.cursors[CallTask] + k - 1>>]
    /\ last.raised = "none"
    /\ train_state.global_steps = last.pre.train_state.global_steps + 1
    /\ Len(log) = Len(last.pre.log) + 1
    /\ IndexOf(last.events, "train_state.step")
         > IndexOf(last.events, "teacher.eval")

\* C16 (as claimed): run_inner_loop over B batches returns after taking the
\* configured inner steps of every batch and exactly one meta-optimizer step
\* per batch, each after the outer objective's backward pass and the
\* primary optimizer's meta-gradient hook.
C16_InnerLoopStepsMetaOptimizerPerBatch ==
  (last.op = "run_inner_loop") =>
    /\ last.raised = "none"
    /\ Count(last.events, "meta_optimizer.step") = Len(last.meta_batches)
    /\ Count(last.events, "optimizer.meta_backward") = Len(last.meta_batches)
    /\ Count(last.events, "optimizer.step")
         = inner_steps * Len(last.meta_batches)

\* C17 (as claimed): the matching module returns the sum over all M * S
\* pairs (teacher layer, student layer) of the pair's term, each pair counted
\* exactly once.
C17_MatchingLossSumsAllPairs ==
  matching.called =>
    /\ matching.raised = "none"
    /\ matching.value =
         SumSeq([m \in 1..matching.M |-> SumSeq(matching.terms[m])])

\* The model-side operations the last evaluation call made for task t, in
\* order, and the batches t's cursor holds in that call.
EvalTrace(t) ==
  LET OfTask(ev) == ev.task = t /\ ev.op \in ModelOps
      evs == SelectSeq(last_eval.events, OfTask)
  IN [k \in 1..Len(evs) |-> evs[k].op]
Batches(t) == get_eval_dataloader_from_cache(t, last_eval.use_subset)
Finalizers == {"compute_metrics_from_accumulator", "get_preds_from_accumulator"}

\* The protocol of one evaluation call for task t.
EvalProtocol(t) ==
  LET tr == EvalTrace(t)
  IN /\ \A j \in 1..Len(tr) :
          /\ tr[j] \in Finalizers =>
               /\ Count(tr, tr[j]) = 1
               /\ \A k \in (j + 1)..Len(tr) : tr[k] \notin {"forward", "update"}
          /\ tr[j] = "update" => (j > 1 /\ tr[j - 1] = "forward")
     /\ last_eval.raised = "none" =>
          /\ Count(tr, "get_accumulator") = 1
          /\ Count(tr, "update") = Batches(t)
          /\ Count(tr, "forward") = Batches(t)
          /\ last_eval.result[t].updates = Batches(t)
          /\ last_eval.op = "run_val" =>
               /\ Count(tr, "compute_metrics_from_accumulator") = 1
               /\ ("preds" \in last_eval.result[t].keys) = last_eval.return_preds
          /\ last_eval.op = "run_test" =>
               /\ Count(tr, "compute_metrics_from_accumulator") = 0
               /\ last_eval.result[t].keys = {"accumulator", "preds"}

\* C18 (as claimed): every evaluation call on the primary rank (local_rank 0,
\* or -1 without distribution) creates one accumulator per task, updates it
\* once per batch in cursor order, computes metrics and decodes predictions
\* only after the last update and at most once; run_val returns predictions
\* exactly when return_preds, run_test computes no loss and no metrics.
C18_EvalFollowsProtocol ==
  (Evaluated /\ local_rank \in {-1, 0}) =>
    \A t \in Range(last_eval.task_name_list) : EvalProtocol(t)

\* The same protocol where the code evaluates (local_rank = -1).
EvalProtocolNonDistributed ==
  (Evaluated /\ local_rank = -1) =>
    \A t \in Range(last_eval.task_name_list) : EvalProtocol(t)

\* C19: one run_train_step call pops the task sampler exactly once and leaves
\* every other task's cursor and step counter as they were; when no
\* micro-batch fails it pops exactly N batches from the sampled task's
\* cursor, and when it completes it adds 1 to the sampled task's counter only.
C19_OnlySampledTaskTouched ==
  Called =>
    /\ Count(last.events, "task_sampler.pop") = 1
    /\ task_sampler = last.pre.task_sampler + 1
    /\ \A t \in Tasks \ {CallTask} :
         /\ train_dataloader_dict[t] = last.pre.cursors[t]
         /\ train_state.task_steps[t] = last.pre.train_state.task_steps[t]
    /\ ~WindowFailed =>
         /\ train_dataloader_dict[CallTask] = last.pre.cursors[CallTask] + CallN
         /\ Count(last.events, "dataloader.pop") = CallN
    /\ Completed =>
         train_state.task_steps[CallTask]
           = last.pre.train_state.task_steps[CallTask] + 1
C19_Witness ==
  /\ Completed
  /\ CallTask = "taskB"
  /\ CallN = 2
  /\ last.pre.cursors["taskA"] >= 1
  /\ train_dataloader_dict["taskA"] = last.pre.cursors["taskA"]
  /\ train_dataloader_dict["taskB"] = last.pre.cursors["taskB"] + 2
  /\ train_state.task_steps = [taskA |-> 1, taskB |-> 1]

\* C20 (as claimed): after any sequence of run_train_step calls, failing ones
\* included, of a runner of either class, the optimizer steps taken, the
\* TrainState's global_steps and the log records written are equal in number.
C20_StepsCountersAndLogAgree ==
  /\ optimizer_steps = train_state.global_steps
  /\ optimizer_steps = Len(log)

\* The tasks of the last run_val call whose evaluation cursor holds no batch.
ZeroBatchTasks ==
  {t \in Range(last_eval.task_name_list) : Batches(t) = 0}

\* What run_val does with a task whose cursor yields zero batches: the call
\* ends in ZeroDivisionError, returns nothing (the results of the tasks
\* evaluated before it included) and computes no metrics for that task.
EmptyCursorFails ==
  /\ last_eval.raised = "ZeroDivisionError"
  /\ last_eval.result = "none"
  /\ \A t \in ZeroBatchTasks :
       Count(EvalTrace(t), "compute_metrics_from_accumulator") = 0

\* C21 (as claimed): run_val on the primary rank (local_rank 0, or -1 without
\* distribution) for a task whose cursor yields zero batches fails with a
\* division by zero and returns no result: no metrics for that task, and the
\* results of the tasks evaluated earlier in the call are lost.
C21_EmptyCursorDividesByZero ==
  (last_eval.op = "run_val" /\ local_rank \in {-1, 0} /\ ZeroBatchTasks # {})
    => EmptyCursorFails

\* The same where the code evaluates (local_rank = -1).
EmptyCursorNonDistributed ==
  (last_eval.op = "run_val" /\ local_rank = -1 /\ ZeroBatchTasks # {})
    => EmptyCursorFails

====
